---- MODULE Spec2Model ----
(***************************************************************************)
(* Model of the response-normalization and resilience core of the MCP o3   *)
(* search server: the OpenAI client (createSearchPrompt's reply handling,   *)
(* parseSearchResponse, handleOpenAIError, client.search), the search       *)
(* service (buildSearchQuery, transformResults, executeSearch,              *)
(* searchWithRetry).                                                        *)
(*                                                                          *)
(* Text is modelled as a sequence of tokens.  A token stands for one        *)
(* lexical unit of the completion text: a brace, a bracket, an object key   *)
(* with its colon, a scalar, or a run of non-JSON text.  Separators inside  *)
(* JSON (commas, white space) are taken as well formed and left out.        *)
(* TLA+ strings are ASCII: the Japanese messages of the source are named    *)
(* by the ASCII tags defined below.                                         *)
(***************************************************************************)
EXTENDS Integers, Sequences, FiniteSets, TLC

(***************************************************************************)
(* Bounds of the model.                                                     *)
(***************************************************************************)
MaxRetriesBound == 6
MaxResults == 2
MaxHeaderLen == 3
MaxTokens == 3
MaxUpstream == 3
MaxPad == 2
MaxServerRetries == 2
MaxConcRetries == 2

(***************************************************************************)
(* Program constants.                                                       *)
(***************************************************************************)
BaseDelayMs == 1000
BackoffFactor == 2
MaxDelayMs == 10000
DefaultRetryAfter == 60
DefaultMaxResults == 10
ConfigTimeout == 30000

(***************************************************************************)
(* Message texts of the source, as ASCII tags.                              *)
(*   MsgEmptyResponse   '検索レスポンスが空です'                             *)
(*   MsgNoJson          '有効なJSON形式の応答が見つかりません'                *)
(*   MsgInvalidFormat   '無効な検索結果形式です'                             *)
(*   MsgParsePrefix     '検索レスポンスの解析エラー'                         *)
(*   MsgAuth            'OpenAI APIキーが無効です。...'                      *)
(*   MsgRateLimit       'OpenAI APIのレート制限に達しました。'                *)
(*   MsgServerError     'OpenAI APIサーバーエラーが発生しました。'            *)
(*   MsgApiErrorPrefix  'OpenAI API エラー: '                                *)
(*   MsgTimeout         'リクエストがタイムアウトしました (30000ms)'          *)
(*   MsgConnection      'ネットワーク接続エラーが発生しました。'              *)
(*   MsgUnexpected      '予期しないエラーが発生しました。'                    *)
(*   NoTitle            'タイトルなし'                                       *)
(***************************************************************************)
MsgEmptyResponse == "response-is-empty"
MsgNoJson == "no-valid-JSON-found"
MsgInvalidFormat == "invalid-result-format"
MsgParsePrefix == "search-response-parse-error"
MsgAuth == "OpenAI-API-key-is-invalid"
MsgRateLimit == "OpenAI-API-rate-limit-reached"
MsgServerError == "OpenAI-API-server-error"
MsgApiErrorPrefix == "OpenAI-API-error:"
MsgTimeout == "request-timed-out"
MsgConnection == "connection-error"
MsgUnexpected == "unexpected-error"
MsgSyntaxError == "Unexpected-token"
MsgTypeError == "Cannot-read-properties"
NoTitle == "no-title"

\* String.prototype.includes on a message: a message is a sequence of words.
Includes(msg, word) == \E i \in 1..Len(msg) : msg[i] = word

(***************************************************************************)
(* JSON values and tokens.                                                  *)
(***************************************************************************)
JUndef == [ty |-> "undefined", s |-> "", n |-> 0, keys |-> <<>>, items |-> <<>>]
JNull == [ty |-> "null", s |-> "", n |-> 0, keys |-> <<>>, items |-> <<>>]
JStr(str) == [ty |-> "str", s |-> str, n |-> 0, keys |-> <<>>, items |-> <<>>]
JNum(num) == [ty |-> "num", s |-> "", n |-> num, keys |-> <<>>, items |-> <<>>]
JArr(its) == [ty |-> "arr", s |-> "", n |-> 0, keys |-> <<>>, items |-> its]
JObj(ks, its) == [ty |-> "obj", s |-> "", n |-> 0, keys |-> ks, items |-> its]
\* The number NaN (never the result of JSON.parse; parseInt can return it).
JNaN == [ty |-> "NaN", s |-> "", n |-> 0, keys |-> <<>>, items |-> <<>>]

Tok(kind, str, num) == [t |-> kind, s |-> str, n |-> num]
LBrace == Tok("{", "", 0)
RBrace == Tok("}", "", 0)
LBracket == Tok("[", "", 0)
RBracket == Tok("]", "", 0)
Prose == Tok("prose", "", 0)
Fence == Tok("fence", "", 0)
KeyTok(k) == Tok("key", k, 0)

\* JavaScript truthiness of a value (the ! and || operators).
Truthy(v) ==
  CASE v.ty = "undefined" -> FALSE
    [] v.ty = "null" -> FALSE
    [] v.ty = "str" -> v.s # ""
    [] v.ty = "num" -> v.n # 0
    [] v.ty = "NaN" -> FALSE
    [] OTHER -> TRUE

\* Property read obj.k: the last member named k, undefined when there is none
\* or when obj is not an object.
GetField(obj, k) ==
  IF obj.ty # "obj" \/ ~(\E i \in 1..Len(obj.keys) : obj.keys[i] = k)
  THEN JUndef
  ELSE obj.items[CHOOSE i \in 1..Len(obj.keys) :
                   /\ obj.keys[i] = k
                   /\ \A j \in (i + 1)..Len(obj.keys) : obj.keys[j] # k]

RECURSIVE Stringify(_)
RECURSIVE StringifyAll(_)
RECURSIVE StringifyMembers(_, _)
\* JSON.stringify, to tokens.
Stringify(v) ==
  CASE v.ty = "str" -> <<Tok("str", v.s, 0)>>
    [] v.ty = "num" -> <<Tok("num", "", v.n)>>
    [] v.ty = "null" -> <<Tok("null", "", 0)>>
    [] v.ty = "arr" -> <<LBracket>> \o StringifyAll(v.items) \o <<RBracket>>
    [] v.ty = "obj" -> <<LBrace>> \o StringifyMembers(v.keys, v.items) \o <<RBrace>>
    [] OTHER -> <<>>
StringifyAll(its) ==
  IF its = <<>> THEN <<>> ELSE Stringify(Head(its)) \o StringifyAll(Tail(its))
StringifyMembers(ks, its) ==
  IF ks = <<>> THEN <<>>
  ELSE <<KeyTok(Head(ks))>> \o Stringify(Head(its)) \o StringifyMembers(Tail(ks), Tail(its))

ParseFail == [ok |-> FALSE, val |-> JUndef, rest |-> <<>>]
RECURSIVE ParseValue(_)
RECURSIVE ParseMembers(_, _, _)
RECURSIVE ParseItems(_, _)
\* JSON.parse by recursive descent: one value at the head of toks.
ParseValue(toks) ==
  IF toks = <<>> THEN ParseFail
  ELSE LET h == Head(toks) IN
    CASE h.t = "str" -> [ok |-> TRUE, val |-> JStr(h.s), rest |-> Tail(toks)]
      [] h.t = "num" -> [ok |-> TRUE, val |-> JNum(h.n), rest |-> Tail(toks)]
      [] h.t = "null" -> [ok |-> TRUE, val |-> JNull, rest |-> Tail(toks)]
      [] h.t = "{" -> ParseMembers(Tail(toks), <<>>, <<>>)
      [] h.t = "[" -> ParseItems(Tail(toks), <<>>)
      [] OTHER -> ParseFail
ParseMembers(toks, ks, its) ==
  IF toks = <<>> THEN ParseFail
  ELSE LET h == Head(toks) IN
    CASE h.t = "}" -> [ok |-> TRUE, val |-> JObj(ks, its), rest |-> Tail(toks)]
      [] h.t = "key" ->
           LET r == ParseValue(Tail(toks)) IN
           IF r.ok THEN ParseMembers(r.rest, Append(ks, h.s), Append(its, r.val))
           ELSE ParseFail
      [] OTHER -> ParseFail
ParseItems(toks, its) ==
  IF toks = <<>> THEN ParseFail
  ELSE LET h == Head(toks) IN
    IF h.t = "]" THEN [ok |-> TRUE, val |-> JArr(its), rest |-> Tail(toks)]
    ELSE LET r == ParseValue(toks) IN
         IF r.ok THEN ParseItems(r.rest, Append(its, r.val)) ELSE ParseFail

\* JSON.parse(text): the whole text must be one value; throws otherwise.
JsonParse(toks) ==
  LET r == ParseValue(toks) IN
  IF r.ok /\ r.rest = <<>> THEN [ok |-> TRUE, val |-> r.val]
  ELSE [ok |-> FALSE, val |-> JUndef]

\* content.match(/\{[\s\S]*\}/): from the first '{' to the last '}' after it.
JsonMatch(content) ==
  LET opens == {i \in 1..Len(content) : content[i].t = "{"}
      closes == {j \in 1..Len(content) : content[j].t = "}"}
  IN
  IF opens = {} \/ closes = {} THEN [found |-> FALSE, span |-> <<>>]
  ELSE LET i == CHOOSE a \in opens : \A b \in opens : a <= b
           j == CHOOSE a \in closes : \A b \in closes : b <= a
       IN IF i < j THEN [found |-> TRUE, span |-> SubSeq(content, i, j)]
          ELSE [found |-> FALSE, span |-> <<>>]

(***************************************************************************)
(* Cost model (utils/cost-calculator).  Model names are sequences of        *)
(* characters.  Prices are in hundredths of a USD per 1M tokens, costs in   *)
(* millionths of a USD (the 6 decimals kept by toFixed(6)).                 *)
(***************************************************************************)
Gpt4o == <<"g", "p", "t", "-", "4", "o">>
Gpt4oMini == <<"g", "p", "t", "-", "4", "o", "-", "m", "i", "n", "i">>
Gpt4Turbo == <<"g", "p", "t", "-", "4", "-", "t", "u", "r", "b", "o">>
Gpt4 == <<"g", "p", "t", "-", "4">>
Gpt35Turbo == <<"g", "p", "t", "-", "3", ".", "5", "-", "t", "u", "r", "b", "o">>
Gpt4O3 == <<"g", "p", "t", "-", "4", "-", "o", "3">>
Gpt5 == <<"g", "p", "t", "-", "5">>

MODEL_PRICING ==
  (Gpt4o :> [input |-> 250, output |-> 1000]) @@
  (Gpt4oMini :> [input |-> 15, output |-> 60]) @@
  (Gpt4Turbo :> [input |-> 1000, output |-> 3000]) @@
  (Gpt4 :> [input |-> 3000, output |-> 6000]) @@
  (Gpt35Turbo :> [input |-> 50, output |-> 150]) @@
  (Gpt4O3 :> [input |-> 300, output |-> 1200]) @@
  (Gpt5 :> [input |-> 500, output |-> 1500])

\* Names every object inherits from Object.prototype: `name in obj` is true of them.
ObjectPrototypeKeys ==
  { <<"t", "o", "S", "t", "r", "i", "n", "g">>,
    <<"v", "a", "l", "u", "e", "O", "f">>,
    <<"c", "o", "n", "s", "t", "r", "u", "c", "t", "o", "r">> }

\* `model in MODEL_PRICING`
isSupportedModel(model) ==
  model \in DOMAIN MODEL_PRICING \/ model \in ObjectPrototypeKeys

ToLowerChar(c) ==
  CASE c = "G" -> "g" [] c = "P" -> "p" [] c = "T" -> "t" [] c = "O" -> "o"
    [] c = "M" -> "m" [] c = "I" -> "i" [] c = "N" -> "n" [] c = "U" -> "u"
    [] c = "R" -> "r" [] c = "B" -> "b" [] c = "S" -> "s" [] c = "V" -> "v"
    [] c = "A" -> "a" [] c = "L" -> "l" [] c = "E" -> "e" [] c = "F" -> "f"
    [] c = "C" -> "c" [] c = "X" -> "x"
    [] OTHER -> c
toLowerCase(str) == [i \in 1..Len(str) |-> ToLowerChar(str[i])]

\* String.prototype.includes on characters.
StrIncludes(hay, needle) ==
  \E i \in 1..(Len(hay) - Len(needle) + 1) :
     SubSeq(hay, i, i + Len(needle) - 1) = needle

\* Mutant of guessModelFromName: the base variant is tested before the mini
\* variant.
guessModelFromNameBaseFirst(model) ==
  LET lowerModel == toLowerCase(model) IN
  IF StrIncludes(lowerModel, Gpt4o) THEN Gpt4o
  ELSE IF StrIncludes(lowerModel, Gpt4oMini) THEN Gpt4oMini
  ELSE IF StrIncludes(lowerModel, Gpt4Turbo) THEN Gpt4Turbo
  ELSE IF StrIncludes(lowerModel, Gpt4O3) \/ StrIncludes(lowerModel, <<"o", "3">>)
       THEN Gpt4O3
  ELSE IF StrIncludes(lowerModel, Gpt5) THEN Gpt5
  ELSE IF StrIncludes(lowerModel, Gpt4) THEN Gpt4
  ELSE IF StrIncludes(lowerModel, <<"g", "p", "t", "-", "3", ".", "5">>)
          \/ StrIncludes(lowerModel, <<"t", "u", "r", "b", "o">>)
       THEN Gpt35Turbo
  ELSE Gpt4o

guessModelFromName(model) ==
  LET lowerModel == toLowerCase(model) IN
  IF StrIncludes(lowerModel, Gpt4oMini) THEN Gpt4oMini
  ELSE IF StrIncludes(lowerModel, Gpt4o) THEN Gpt4o
  ELSE IF StrIncludes(lowerModel, Gpt4Turbo) THEN Gpt4Turbo
  ELSE IF StrIncludes(lowerModel, Gpt4O3) \/ StrIncludes(lowerModel, <<"o", "3">>)
       THEN Gpt4O3
  ELSE IF StrIncludes(lowerModel, Gpt5) THEN Gpt5
  ELSE IF StrIncludes(lowerModel, Gpt4) THEN Gpt4
  ELSE IF StrIncludes(lowerModel, <<"g", "p", "t", "-", "3", ".", "5">>)
          \/ StrIncludes(lowerModel, <<"t", "u", "r", "b", "o">>)
       THEN Gpt35Turbo
  ELSE Gpt4o

\* An amount of money: a number of millionths of a USD, or NaN.
Money(micro) == [nan |-> FALSE, micro |-> micro]
MoneyNaN == [nan |-> TRUE, micro |-> 0]

\* Number(((tokens / 1_000_000) * price).toFixed(6)), in millionths: the
\* product tokens * price100 is in 10^-8 USD and is rounded to 10^-6.
RoundToMicro(x100) == (x100 + 50) \div 100

\* Mutant of CostUndefined: a zero-valued cost where no cost is attached.
CostZeroValued ==
  [ defined |-> TRUE, model |-> Gpt4o,
    usage |-> [promptTokens |-> 0, completionTokens |-> 0, totalTokens |-> 0],
    inputCost |-> Money(0), outputCost |-> Money(0), totalCost |-> Money(0),
    currency |-> "USD" ]

\* let costInfo: CostInfo | undefined, never assigned.
CostUndefined == [defined |-> FALSE]

calculateCost(model, usage) ==
  LET supportedModel == IF isSupportedModel(model) THEN model
                        ELSE guessModelFromName(model)
      priced == supportedModel \in DOMAIN MODEL_PRICING
      pin == IF priced THEN MODEL_PRICING[supportedModel].input ELSE 0
      pout == IF priced THEN MODEL_PRICING[supportedModel].output ELSE 0
  IN [ defined |-> TRUE,
       model |-> supportedModel,
       usage |-> usage,
       inputCost |-> IF priced THEN Money(RoundToMicro(usage.promptTokens * pin))
                     ELSE MoneyNaN,
       outputCost |-> IF priced THEN Money(RoundToMicro(usage.completionTokens * pout))
                      ELSE MoneyNaN,
       totalCost |-> IF priced
                     THEN Money(RoundToMicro(usage.promptTokens * pin
                                             + usage.completionTokens * pout))
                     ELSE MoneyNaN,
       currency |-> "USD" ]

(***************************************************************************)
(* Errors.  An error value has a name (its class), a message (a sequence    *)
(* of words), the RateLimitError's retryAfter, the TimeoutError's           *)
(* timeoutMs, and `call`: the upstream invocation that raised it, which     *)
(* tells one error object from another (0 until an invocation raises it).   *)
(***************************************************************************)
MkError(nm, msg, ra, tmo) ==
  [name |-> nm, message |-> msg, retryAfter |-> ra, timeoutMs |-> tmo, call |-> 0]
PlainError(msg) == MkError("Error", msg, JUndef, JUndef)
AuthError(msg) == MkError("AuthError", msg, JUndef, JUndef)
RateLimitError(msg, ra) == MkError("RateLimitError", msg, ra, JUndef)
NetworkError(msg) == MkError("NetworkError", msg, JUndef, JUndef)
TimeoutError(msg, tmo) == MkError("TimeoutError", msg, JUndef, JNum(tmo))
TypeErrorValue(msg) == MkError("TypeError", msg, JUndef, JUndef)
\* The value of a `let lastError: Error` that was never assigned.
UndefinedError == MkError("undefined", <<>>, JUndef, JUndef)

Threw(e) == [ok |-> FALSE, value |-> [defined |-> FALSE], error |-> e]
Returned(v) == [ok |-> TRUE, value |-> v, error |-> UndefinedError]

(***************************************************************************)
(* parseSearchResponse.  A completion is                                    *)
(*   [choices: "undefined" | "empty" | "present", hasContent, content,      *)
(*    hasUsage, usage, model].                                              *)
(***************************************************************************)
\* results.forEach(result => result.title ...) throws on a null entry.
ForEachThrows(results) == \E i \in 1..Len(results) : results[i].ty = "null"

parseSearchResponse(response) ==
  IF response.choices = "undefined" THEN Threw(TypeErrorValue(<<MsgTypeError>>))
  ELSE IF response.choices = "empty" \/ ~response.hasContent \/ response.content = <<>>
  THEN Threw(PlainError(<<MsgEmptyResponse>>))
  ELSE
    LET jsonMatch == JsonMatch(response.content) IN
    IF ~jsonMatch.found THEN Threw(PlainError(<<MsgNoJson>>))
    ELSE
      LET parsed == JsonParse(jsonMatch.span) IN
      IF ~parsed.ok THEN Threw(MkError("SyntaxError", <<MsgSyntaxError>>, JUndef, JUndef))
      ELSE
        LET parsedResponse == parsed.val
            results == GetField(parsedResponse, "results")
            totalCount == GetField(parsedResponse, "totalCount")
        IN
        IF ~Truthy(results) \/ results.ty # "arr"
        THEN Threw(PlainError(<<MsgInvalidFormat>>))
        ELSE IF ForEachThrows(results.items)
        THEN Threw(TypeErrorValue(<<MsgTypeError>>))
        ELSE Returned(
          [ results |-> results.items,
            totalCount |-> IF Truthy(totalCount) THEN totalCount
                           ELSE JNum(Len(results.items)),
            cost |-> IF response.hasUsage
                     THEN calculateCost(response.model, response.usage)
                     ELSE CostUndefined ])

(***************************************************************************)
(* handleOpenAIError.  A value thrown by openai.chat.completions.create is  *)
(*   [isError          error instanceof Error,                              *)
(*    isSDKAPIError    error instanceof OpenAI.APIError,                    *)
(*    status           a number, or undefined,                              *)
(*    name, ctorName   error.name, error.constructor.name,                  *)
(*    message          a sequence of words,                                 *)
(*    retryAfterHeader headers?.['retry-after']: absent, or a string of     *)
(*                     characters].                                         *)
(***************************************************************************)
HeaderAbsent == [isString |-> FALSE, chars |-> <<>>]
HeaderString(cs) == [isString |-> TRUE, chars |-> cs]

IsDigit(c) == c \in {"0", "1", "2", "3", "4", "5", "6", "7", "8", "9"}
DigitValue(c) ==
  CASE c = "0" -> 0 [] c = "1" -> 1 [] c = "2" -> 2 [] c = "3" -> 3 [] c = "4" -> 4
    [] c = "5" -> 5 [] c = "6" -> 6 [] c = "7" -> 7 [] c = "8" -> 8 [] c = "9" -> 9

RECURSIVE SkipSpaces(_)
SkipSpaces(cs) ==
  IF cs # <<>> /\ Head(cs) = " " THEN SkipSpaces(Tail(cs)) ELSE cs

RECURSIVE DigitsValue(_, _)
\* The value of the longest prefix of digits of cs, after the digits read so far.
DigitsValue(cs, acc) ==
  IF cs # <<>> /\ IsDigit(Head(cs))
  THEN DigitsValue(Tail(cs), acc * 10 + DigitValue(Head(cs)))
  ELSE acc

\* parseInt(str, 10): leading white space, an optional sign, then digits up to
\* the first character that is none; NaN when there is no digit.
parseInt(cs) ==
  LET t == SkipSpaces(cs)
      signed == t # <<>> /\ Head(t) \in {"-", "+"}
      body == IF signed THEN Tail(t) ELSE t
  IN IF body = <<>> \/ ~IsDigit(Head(body)) THEN JNaN
     ELSE IF signed /\ Head(t) = "-" THEN JNum(0 - DigitsValue(body, 0))
     ELSE JNum(DigitsValue(body, 0))

handleOpenAIError(error) ==
  LET isAPIError ==
        \/ error.isSDKAPIError
        \/ /\ error.isError
           /\ error.status.ty = "num"
           /\ \/ error.name = "APIError"
              \/ error.ctorName = "APIError"
              \/ error.ctorName = "MockAPIError"
  IN
  IF isAPIError THEN
    IF error.status.ty = "num" /\ error.status.n = 401 THEN AuthError(<<MsgAuth>>)
    ELSE IF error.status.ty = "num" /\ error.status.n = 429 THEN
      LET retryAfterHeader == error.retryAfterHeader
          retrySeconds == IF retryAfterHeader.isString
                          THEN parseInt(retryAfterHeader.chars)
                          ELSE JNum(DefaultRetryAfter)
      IN RateLimitError(<<MsgRateLimit>>, retrySeconds)
    ELSE IF error.status.ty = "num" /\ error.status.n >= 500
    THEN NetworkError(<<MsgServerError>>)
    ELSE NetworkError(<<MsgApiErrorPrefix>> \o error.message)
  ELSE IF error.isError
          /\ (error.name = "AbortError" \/ Includes(error.message, "timeout"))
  THEN TimeoutError(<<MsgTimeout>>, ConfigTimeout)
  ELSE IF error.isError
          /\ (Includes(error.message, "network") \/ Includes(error.message, "ECONNREFUSED"))
  THEN NetworkError(<<MsgConnection>>)
  ELSE NetworkError(<<MsgUnexpected>>)

(***************************************************************************)
(* createOpenAIClient().search: what client.search settles with, given      *)
(* what openai.chat.completions.create settled with.  An upstream reply is  *)
(* [resolved, completion, raised].                                          *)
(***************************************************************************)
\* The thrown value itself, rethrown unchanged.
Rethrown(error) == MkError(error.name, error.message, JUndef, JUndef)

\* The catch of the inner try: a parse failure becomes a parse error.
WrapParseError(parseError) ==
  PlainError(<<MsgParsePrefix, ":">> \o parseError.message)

\* Mutant of IsParseRethrow: the outer catch classifies every error.
IsParseRethrowNever(isError, message) == FALSE

\* The guard of the outer catch that lets a parse error through.
IsParseRethrow(isError, message) == isError /\ Includes(message, MsgParsePrefix)

clientSearch(reply) ==
  IF reply.resolved THEN
    LET parsed == parseSearchResponse(reply.completion) IN
    IF parsed.ok THEN parsed
    ELSE LET wrapped == WrapParseError(parsed.error) IN
         IF IsParseRethrow(TRUE, wrapped.message) THEN Threw(wrapped)
         ELSE Threw(handleOpenAIError(
                [isError |-> TRUE, isSDKAPIError |-> FALSE, status |-> JUndef,
                 name |-> "Error", ctorName |-> "Error", message |-> wrapped.message,
                 retryAfterHeader |-> HeaderAbsent]))
  ELSE
    IF IsParseRethrow(reply.raised.isError, reply.raised.message)
    THEN Threw(Rethrown(reply.raised))
    ELSE Threw(handleOpenAIError(reply.raised))

(***************************************************************************)
(* Search service (services/search): buildSearchQuery, transformResults,    *)
(* executeSearch.  SearchParams is [limit]: a number, or undefined; the     *)
(* query text and the filters are passed through and are left out.          *)
(***************************************************************************)
buildSearchQuery(params) ==
  [maxResults |-> IF Truthy(params.limit) THEN params.limit
                  ELSE JNum(DefaultMaxResults)]

\* Mutant of Slice0: nothing is cut off.
Slice0KeepsAll(results, limit) == results

\* Array.prototype.slice(0, limit) for an integer limit.
Slice0(results, limit) ==
  IF limit >= 0
  THEN SubSeq(results, 1, IF limit < Len(results) THEN limit ELSE Len(results))
  ELSE SubSeq(results, 1, Len(results) + limit)

\* Mutant of transformItem: the title is projected as it is.
transformItemKeepsTitle(item) ==
  [ title |-> GetField(item, "title"),
    url |-> GetField(item, "url"),
    snippet |-> IF Truthy(GetField(item, "description"))
                THEN GetField(item, "description") ELSE JStr(""),
    publishedDate |-> GetField(item, "date"),
    relevanceScore |-> GetField(item, "score") ]

transformItem(item) ==
  [ title |-> IF Truthy(GetField(item, "title")) THEN GetField(item, "title")
              ELSE JStr(NoTitle),
    url |-> GetField(item, "url"),
    snippet |-> IF Truthy(GetField(item, "description"))
                THEN GetField(item, "description") ELSE JStr(""),
    publishedDate |-> GetField(item, "date"),
    relevanceScore |-> GetField(item, "score") ]

transformResults(response, limit) ==
  IF Len(response.results) = 0 THEN <<>>
  ELSE LET results == [i \in 1..Len(response.results) |->
                         transformItem(response.results[i])]
       IN IF Truthy(limit) THEN Slice0(results, limit.n) ELSE results

\* Mutant of executeSearch: the catch throws a new error that quotes the
\* message of the one it caught.
executeSearchWraps(params, reply) ==
  LET response == clientSearch(reply) IN
  IF response.ok
  THEN Returned([ results |-> transformResults(response.value, params.limit),
                  costInfo |-> response.value.cost ])
  ELSE Threw(PlainError(response.error.message))

\* executeSearch(params), given what the upstream call settles with: the
\* catch logs and rethrows the same error.
executeSearch(params, reply) ==
  LET response == clientSearch(reply) IN
  IF response.ok
  THEN Returned([ results |-> transformResults(response.value, params.limit),
                  costInfo |-> response.value.cost ])
  ELSE response

(***************************************************************************)
(* validateSearchParams (tools/search).  The tool arguments are             *)
(*   [kind: "undefined" | "null" | "string" | "object", query, limit,       *)
(*    language, timeframe]                                                  *)
(* with the members present only when kind is "object".  A query string is  *)
(* [ty |-> "str", pad, core]: pad characters of surrounding white space     *)
(* and core characters between them, so its length is pad + core and        *)
(* trim() leaves the core.  A number given for limit is counted in tenths.  *)
(*   MsgParamsRequired     '検索パラメータは必須です'                        *)
(*   MsgQueryRequired      '検索クエリは必須の文字列です'                    *)
(*   MsgQueryEmpty         '検索クエリが空です'                              *)
(*   MsgQueryTooLong       '検索クエリは500文字以内で入力してください'        *)
(*   MsgLimitNotNumber     'limitは数値である必要があります'                 *)
(*   MsgLimitRange         'limitは1から50の範囲で指定してください'           *)
(*   MsgLanguageNotString  'languageは文字列である必要があります'            *)
(*   MsgLanguageInvalid    'languageは次のいずれかである必要があります: ...'  *)
(*   MsgTimeframeNotString 'timeframeは文字列である必要があります'           *)
(*   MsgTimeframeInvalid   'timeframeは次のいずれかである必要があります: ...' *)
(***************************************************************************)
MsgParamsRequired == "search-parameters-are-required"
MsgQueryRequired == "query-must-be-a-string"
MsgQueryEmpty == "query-is-empty"
MsgQueryTooLong == "query-is-longer-than-500"
MsgLimitNotNumber == "limit-must-be-a-number"
MsgLimitRange == "limit-must-be-in-1-50"
MsgLanguageNotString == "language-must-be-a-string"
MsgLanguageInvalid == "language-must-be-one-of"
MsgTimeframeNotString == "timeframe-must-be-a-string"
MsgTimeframeInvalid == "timeframe-must-be-one-of"

MaxQueryLength == 500
MinLimit == 1
MaxLimit == 50

QueryString(pad, core) == [ty |-> "str", pad |-> pad, core |-> core]
\* A number with one decimal, in tenths: Decimal(157) is 15.7.
Decimal(tenths) == [ty |-> "decimal", tenths |-> tenths]

validLanguages == {"auto", "ja", "en", "zh", "ko", "fr", "de", "es", "it", "pt", "ru"}
validTimeframes == {"recent", "past_week", "past_month", "past_year"}

\* Math.floor of a number in tenths.
Floor(tenths) == tenths \div 10

validateSearchParams(args) ==
  IF args.kind # "object" THEN Threw(PlainError(<<MsgParamsRequired>>))
  ELSE IF args.query.ty # "str" \/ args.query.pad + args.query.core = 0
  THEN Threw(PlainError(<<MsgQueryRequired>>))
  ELSE IF args.query.core = 0 THEN Threw(PlainError(<<MsgQueryEmpty>>))
  ELSE IF args.query.pad + args.query.core > MaxQueryLength
  THEN Threw(PlainError(<<MsgQueryTooLong>>))
  ELSE IF args.limit.ty \notin {"undefined", "decimal", "NaN"}
  THEN Threw(PlainError(<<MsgLimitNotNumber>>))
  ELSE IF args.limit.ty = "decimal"
          /\ (args.limit.tenths < MinLimit * 10 \/ args.limit.tenths > MaxLimit * 10)
  THEN Threw(PlainError(<<MsgLimitRange>>))
  ELSE IF args.language.ty \notin {"undefined", "str"}
  THEN Threw(PlainError(<<MsgLanguageNotString>>))
  ELSE IF args.language.ty = "str" /\ args.language.s \notin validLanguages
  THEN Threw(PlainError(<<MsgLanguageInvalid>>))
  ELSE IF args.timeframe.ty \notin {"undefined", "str"}
  THEN Threw(PlainError(<<MsgTimeframeNotString>>))
  ELSE IF args.timeframe.ty = "str" /\ args.timeframe.s \notin validTimeframes
  THEN Threw(PlainError(<<MsgTimeframeInvalid>>))
  ELSE Returned(
    [ query |-> QueryString(0, args.query.core),
      limit |-> CASE args.limit.ty = "undefined" -> JNum(DefaultMaxResults)
                  [] args.limit.ty = "NaN" -> JNaN
                  [] OTHER -> JNum(Floor(args.limit.tenths)),
      language |-> IF args.language.ty = "undefined" THEN JStr("auto")
                   ELSE args.language,
      timeframe |-> args.timeframe ])

\* The tool arguments explored: no object, and objects whose members are
\* absent, of a wrong type, out of range, at the edges and in range.
QueryArgs ==
  {JUndef, JNum(1)}
  \cup {QueryString(pad, core) :
          pad \in 0..MaxPad,
          core \in {0, 1, MaxQueryLength - 1, MaxQueryLength, MaxQueryLength + 1}}
LimitArgs ==
  {JUndef, JNull, JStr("ten"), JNaN}
  \cup {Decimal(t) : t \in {0 - 10, 0, 5, 9, 10, 15, 157, 500, 501, 505, 510}}
LanguageArgs == {JUndef, JNum(1), JStr("ja"), JStr("auto"), JStr("xx"), JStr("")}
TimeframeArgs == {JUndef, JNum(1), JStr("recent"), JStr("past_year"), JStr("bad")}
ObjectArgs(q, l, lang, tf) ==
  [kind |-> "object", query |-> q, limit |-> l, language |-> lang, timeframe |-> tf]
NoArgs == [kind |-> "undefined"]
ValidateArgs ==
  {NoArgs, [kind |-> "null"], [kind |-> "string"]}
  \cup {ObjectArgs(q, l, lang, tf) :
          q \in QueryArgs, l \in LimitArgs, lang \in LanguageArgs, tf \in TimeframeArgs}

(***************************************************************************)
(* The replies of the upstream chat endpoint explored by the model.         *)
(***************************************************************************)
SeqsUpTo(S, n) == UNION {[1..k -> S] : k \in 0..n}

Entry(title, url) == JObj(<<"title", "url", "description">>, <<JStr(title), JStr(url), JStr("D")>>)
EntryWithoutTitle == JObj(<<"url">>, <<JStr("u")>>)
EntryWithoutUrl == JObj(<<"title">>, <<JStr("T")>>)

\* Result entries: complete, with an empty or missing title or url, and null.
Entries ==
  { Entry("T", "u"), Entry("", "u"), Entry("T", ""),
    EntryWithoutTitle, EntryWithoutUrl, JNull }

Usage(p, c) == [promptTokens |-> p, completionTokens |-> c, totalTokens |-> p + c]
NoUsage == Usage(0, 0)

Completion(content, hasUsage, model) ==
  [ choices |-> "present", hasContent |-> TRUE, content |-> content,
    hasUsage |-> hasUsage, usage |-> IF hasUsage THEN Usage(100, 50) ELSE NoUsage,
    model |-> model ]

\* Model identifiers a completion can report: the empty string, the keys of
\* the pricing table, variants and unknown names, and names of inherited
\* object properties.
ModelNames ==
  DOMAIN MODEL_PRICING \cup ObjectPrototypeKeys \cup
  { <<>>, <<"x">>, <<"G", "P", "T", "-", "4", "O">>,
    Gpt4o \o <<"-", "2", "0", "2", "4">>, <<"o", "3", "-", "m", "i", "n", "i">>,
    <<"t", "u", "r", "b", "o">>,
    <<"G", "P", "T", "-", "4", "O", "-", "M", "I", "N", "I">>,
    Gpt4O3 \o <<"-", "x">>, Gpt4o \o <<"3">>, Gpt4Turbo \o <<"-", "o", "3">>,
    <<"g", "p", "t", "-", "3", ".", "5">>, Gpt5 \o <<"-", "x">> }

\* Token counts of a usage: small ones and those of a long exchange.
TokenCounts == (0..MaxTokens) \cup {1000, 100000}
Usages == {Usage(p, c) : p, c \in TokenCounts}

\* Payload objects: with and without results, totalCount and another member.
ResultsValues ==
  {JArr(r) : r \in SeqsUpTo(Entries, MaxResults)} \cup {JStr("x"), JNull, JNum(0)}
TotalCountValues == {JNum(0), JNum(1), JNum(7)}
Payloads ==
  {JObj(<<>>, <<>>), JObj(<<"invalid">>, <<JStr("structure")>>)}
  \cup {JObj(<<"results">>, <<r>>) : r \in ResultsValues}
  \cup {JObj(<<"results", "totalCount">>, <<r, t>>) :
          r \in ResultsValues, t \in TotalCountValues}

\* Text around the payload: nothing, prose, a code fence, prose with braces.
Prefixes == {<<>>, <<Prose>>, <<Fence>>, <<Prose, LBrace, Prose, RBrace, Prose>>}
Suffixes == {<<>>, <<Prose>>, <<Fence>>, <<Prose, LBrace, Prose, RBrace>>, <<RBrace>>}

\* Contents that hold no payload at all, or a broken one.
BrokenContents ==
  { <<>>, <<Prose>>, <<Prose, Fence, Prose>>, <<LBrace>>, <<RBrace, Prose, LBrace>>,
    <<LBrace, Prose, RBrace>>, <<LBrace, KeyTok("results"), LBracket, RBrace>>,
    <<LBracket, RBracket>> }

Contents ==
  {pre \o Stringify(pl) \o post : pre \in Prefixes, pl \in Payloads, post \in Suffixes}
  \cup BrokenContents

Completions ==
  {Completion(c, u, Gpt4O3) : c \in Contents, u \in BOOLEAN}
  \cup { [Completion(<<>>, FALSE, Gpt4O3) EXCEPT !.choices = ch] :
           ch \in {"undefined", "empty"} }
  \cup { [Completion(<<>>, FALSE, Gpt4O3) EXCEPT !.hasContent = FALSE] }
  \cup { [Completion(Stringify(JObj(<<"results">>, <<JArr(<<Entry("T", "u")>>)>>)), TRUE, m)
            EXCEPT !.usage = u] :
           m \in ModelNames, u \in {Usage(0, 0), Usage(1000, 500)} }

HeaderChars == {"1", "0", "x", "-"}
Headers ==
  {HeaderAbsent} \cup {HeaderString(cs) : cs \in SeqsUpTo(HeaderChars, MaxHeaderLen)}

Statuses == {JUndef, JNum(400), JNum(401), JNum(429), JNum(500), JNum(503)}
RawMessages ==
  { <<"x">>, <<"request", "timeout">>, <<"network", "down">>, <<"ECONNREFUSED">>,
    <<MsgParsePrefix, "x">> }

\* The shapes of a thrown value: an SDK APIError, the test double of one, a
\* plain Error, an AbortError, and a value that is no Error.
ErrorShapes ==
  { [isError |-> TRUE, isSDKAPIError |-> TRUE, name |-> "Error", ctorName |-> "APIError"],
    [isError |-> TRUE, isSDKAPIError |-> FALSE, name |-> "APIError", ctorName |-> "MockAPIError"],
    [isError |-> TRUE, isSDKAPIError |-> FALSE, name |-> "Error", ctorName |-> "Error"],
    [isError |-> TRUE, isSDKAPIError |-> FALSE, name |-> "AbortError", ctorName |-> "Error"],
    [isError |-> FALSE, isSDKAPIError |-> FALSE, name |-> "", ctorName |-> "Object"] }

RawError(shape, status, message, header) ==
  [ isError |-> shape.isError, isSDKAPIError |-> shape.isSDKAPIError,
    name |-> shape.name, ctorName |-> shape.ctorName,
    status |-> status, message |-> message, retryAfterHeader |-> header ]

RawErrors ==
  {RawError(sh, st, m, HeaderAbsent) : sh \in ErrorShapes, st \in Statuses, m \in RawMessages}
  \cup {RawError(sh, JNum(429), <<"x">>, h) : sh \in ErrorShapes, h \in Headers}

NoCompletion == Completion(<<>>, FALSE, Gpt4O3)
NoRawError == RawError([isError |-> FALSE, isSDKAPIError |-> FALSE, name |-> "",
                        ctorName |-> ""], JUndef, <<>>, HeaderAbsent)
Resolves(c) == [resolved |-> TRUE, completion |-> c, raised |-> NoRawError]
Rejects(e) == [resolved |-> FALSE, completion |-> NoCompletion, raised |-> e]

UpstreamReplies == {Resolves(c) : c \in Completions} \cup {Rejects(e) : e \in RawErrors}

(***************************************************************************)
(* searchWithRetry(params, maxRetries) as a state machine.  One step is     *)
(* the code run between two awaits.                                         *)
(*   pc        Idle (not called yet), Attempting (awaiting executeSearch),  *)
(*             Retrying (awaiting the backoff timer), Succeeded (returned), *)
(*             Failed (rejected)                                            *)
(*   attempt   the loop counter                                             *)
(*   calls     the number of upstream invocations made so far               *)
(*   waits     the delays of the timers set so far, in ms                   *)
(*   lastError the local of that name                                       *)
(*   result    the value returned, with the invocation that produced it     *)
(*   thrown    the error the call rejected with                             *)
(* and client.search on one upstream reply (reply, searchOut, searched),    *)
(* executeSearch on params and one upstream reply (execOut, executed), and  *)
(* calculateCost on a model identifier and a usage (costModel, costUsage,   *)
(* costInfo, costed), with isSupportedModel and guessModelFromName on the   *)
(* same identifier (supportedOut, guessOut), and the server: the tools      *)
(* returned by the list-tools handler (listed), a call-tool request         *)
(* (toolName, args), what validateSearchParams made of the arguments        *)
(* (validated), the position of the request (hpc: Idle, Searching,          *)
(* Returned, Rejected) and its response.                                    *)
(***************************************************************************)
VARIABLES pc, maxRetries, params, attempt, calls, waits, lastError, result, thrown,
          reply, searchOut, searched, execOut, executed,
          costModel, costUsage, costInfo, costed, supportedOut, guessOut,
          args, validated, toolName, hpc, response, listed,
          invocations, frames

retryVars == <<pc, maxRetries, params, attempt, calls, waits, lastError, result, thrown>>
clientVars == <<reply, searchOut, searched>>
serviceVars == <<execOut, executed>>
costVars == <<costModel, costUsage, costInfo, costed, supportedOut, guessOut>>
serverVars == <<args, validated, toolName, hpc, response, listed>>
concVars == <<invocations, frames>>
vars == <<pc, maxRetries, params, attempt, calls, waits, lastError, result, thrown,
          reply, searchOut, searched, execOut, executed,
          costModel, costUsage, costInfo, costed, supportedOut, guessOut,
          args, validated, toolName, hpc, response, listed,
          invocations, frames>>

Terminal == {"Succeeded", "Failed"}

\* The replies and the validated parameters the retry loop is run on.
RetryEntries == {Entry("T", "u"), Entry("", "u")}
RetryCompletions ==
  {Completion(Stringify(JObj(<<"results">>, <<JArr(r)>>)), u, Gpt4O3) :
     r \in SeqsUpTo(RetryEntries, MaxResults), u \in BOOLEAN}
  \cup {Completion(c, FALSE, Gpt4O3) : c \in BrokenContents}
  \cup {Completion(Stringify(JObj(<<"invalid">>, <<JStr("structure")>>)), FALSE, Gpt4O3)}
Limits == {1, 2, DefaultMaxResults}
ParamsSet == {[limit |-> JNum(l)] : l \in Limits}

\* What executeSearch settles with, for each reply of the upstream.
ResolvedOutcomes ==
  [p \in ParamsSet |-> {executeSearch(p, Resolves(c)) : c \in RetryCompletions}]
RejectedOutcomes == {executeSearch([limit |-> JUndef], Rejects(e)) : e \in RawErrors}

NoResult == [defined |-> FALSE]

\* Mutant of loopContinues: one attempt more than maxRetries is made.
loopContinuesOnceMore(a, max) == a <= max + 1

\* for (...; attempt <= maxRetries; ...)
loopContinues(a, max) == a <= max

\* Mutant of shouldWait: the last retry is made without a wait.
shouldWaitSkipsLast(a, max) == a < max - 1

\* if (attempt < maxRetries)
shouldWait(a, max) == a < max

\* Mutant of backoffDelay: the exponential delay without its ceiling.
backoffDelayUncapped(a) == BaseDelayMs * BackoffFactor ^ (a - 1)

\* Math.min(1000 * Math.pow(2, attempt - 1), 10000)
backoffDelay(a) ==
  LET exponential == BaseDelayMs * BackoffFactor ^ (a - 1) IN
  IF exponential < MaxDelayMs THEN exponential ELSE MaxDelayMs

\* The code after the loop: logging reads lastError.message, which throws a
\* TypeError when no attempt was made; otherwise lastError is thrown.
thrownAfterLoop(err) ==
  IF err.name = "undefined" THEN TypeErrorValue(<<MsgTypeError>>) ELSE err

\* The loop test with the counter at a: the next executeSearch is called, or
\* the loop ends and the call rejects.
LoopTest(a, err) ==
  /\ attempt' = a
  /\ IF loopContinues(a, maxRetries)
     THEN /\ pc' = "Attempting"
          /\ calls' = calls + 1
          /\ thrown' = thrown
     ELSE /\ pc' = "Failed"
          /\ calls' = calls
          /\ thrown' = thrownAfterLoop(err)

\* Mutant of caughtError: the first error is kept, later ones are dropped.
caughtErrorKeepsFirst(prev, e) == IF prev.name = "undefined" THEN e ELSE prev

\* lastError = error as Error
caughtError(prev, e) == e

\* The catch block of the loop body, for the error e.
Catch(e) ==
  /\ lastError' = caughtError(lastError, e)
  /\ result' = result
  /\ IF shouldWait(attempt, maxRetries)
     THEN /\ waits' = Append(waits, backoffDelay(attempt))
          /\ pc' = "Retrying"
          /\ UNCHANGED <<attempt, calls, thrown>>
     ELSE /\ waits' = waits
          /\ LoopTest(attempt + 1, caughtError(lastError, e))

\* The try block after executeSearch resolved with value v.
Return(v) ==
  /\ pc' = "Succeeded"
  /\ result' = [defined |-> TRUE, results |-> v.results, costInfo |-> v.costInfo,
                call |-> calls]
  /\ UNCHANGED <<attempt, calls, waits, lastError, thrown>>

\* What the loop body does with what executeSearch settled with.
Settle(out) ==
  IF out.ok THEN Return(out.value)
  ELSE Catch([out.error EXCEPT !.call = calls])

\* searchWithRetry is called: the first loop test.
CallSearchWithRetry ==
  /\ pc = "Idle"
  /\ LoopTest(1, lastError)
  /\ UNCHANGED <<maxRetries, params, waits, lastError, result>>
  /\ UNCHANGED clientVars
  /\ UNCHANGED serviceVars
  /\ UNCHANGED costVars
  /\ UNCHANGED serverVars
  /\ UNCHANGED concVars

\* The upstream call of the current attempt resolves with a completion.
UpstreamResolves ==
  /\ pc = "Attempting"
  /\ \E out \in ResolvedOutcomes[params] : Settle(out)
  /\ UNCHANGED <<maxRetries, params>>
  /\ UNCHANGED clientVars
  /\ UNCHANGED serviceVars
  /\ UNCHANGED costVars
  /\ UNCHANGED serverVars
  /\ UNCHANGED concVars

\* The upstream call of the current attempt rejects.
UpstreamRejects ==
  /\ pc = "Attempting"
  /\ \E out \in RejectedOutcomes : Settle(out)
  /\ UNCHANGED <<maxRetries, params>>
  /\ UNCHANGED clientVars
  /\ UNCHANGED serviceVars
  /\ UNCHANGED costVars
  /\ UNCHANGED serverVars
  /\ UNCHANGED concVars

\* The backoff timer fires: the loop increment and test.
TimerFires ==
  /\ pc = "Retrying"
  /\ LoopTest(attempt + 1, lastError)
  /\ UNCHANGED <<maxRetries, params, waits, lastError, result>>
  /\ UNCHANGED clientVars
  /\ UNCHANGED serviceVars
  /\ UNCHANGED costVars
  /\ UNCHANGED serverVars
  /\ UNCHANGED concVars

NoReply == Rejects(NoRawError)
\* The result slot of a function that was not called yet.
NotCalled == [called |-> FALSE]
\* No response was made yet.
NoResponse == [made |-> FALSE]
NoOutcome == Threw(UndefinedError)
\* No searchWithRetry call was made side by side with another.
NoInvocations == <<>>
NoFrames == <<>>

Init ==
  /\ pc = "Idle"
  /\ maxRetries \in (0 - 1)..MaxRetriesBound
  /\ params \in ParamsSet
  /\ attempt = 0
  /\ calls = 0
  /\ waits = <<>>
  /\ lastError = UndefinedError
  /\ result = NoResult
  /\ thrown = UndefinedError
  /\ reply = NoReply
  /\ searchOut = NoOutcome
  /\ searched = FALSE
  /\ execOut = NoOutcome
  /\ executed = FALSE
  /\ costModel = <<>>
  /\ costUsage = NoUsage
  /\ costInfo = CostUndefined
  /\ costed = FALSE
  /\ supportedOut = NotCalled
  /\ guessOut = NotCalled
  /\ args = NoArgs
  /\ validated = NotCalled
  /\ toolName = ""
  /\ hpc = "Idle"
  /\ response = NoResponse
  /\ listed = {}
  /\ invocations = NoInvocations
  /\ frames = NoFrames

Next ==
  \/ CallSearchWithRetry
  \/ UpstreamResolves
  \/ UpstreamRejects
  \/ TimerFires

Spec == Init /\ [][Next]_vars

\* The awaited executeSearch settles: the loop leaves the await, by
\* UpstreamResolves or by UpstreamRejects.
AwaitSettles ==
  /\ pc = "Attempting"
  /\ pc' \in {"Succeeded", "Retrying", "Failed"}

\* The retry loop under its scheduling: an awaited upstream call is settled
\* by the upstream, resolving or rejecting, and a timer that was set fires.
SpecLive ==
  /\ Init
  /\ [][Next]_vars
  /\ WF_pc(AwaitSettles)
  /\ WF_vars(TimerFires)

(***************************************************************************)
(* client.search on one upstream reply.                                     *)
(***************************************************************************)
SearchResolved ==
  /\ ~searched
  /\ reply.resolved
  /\ searchOut' = clientSearch(reply)
  /\ searched' = TRUE
  /\ UNCHANGED reply
  /\ UNCHANGED retryVars
  /\ UNCHANGED serviceVars
  /\ UNCHANGED costVars
  /\ UNCHANGED serverVars
  /\ UNCHANGED concVars

SearchRejected ==
  /\ ~searched
  /\ ~reply.resolved
  /\ searchOut' = clientSearch(reply)
  /\ searched' = TRUE
  /\ UNCHANGED reply
  /\ UNCHANGED retryVars
  /\ UNCHANGED serviceVars
  /\ UNCHANGED costVars
  /\ UNCHANGED serverVars
  /\ UNCHANGED concVars

InitClient ==
  /\ pc = "Idle"
  /\ maxRetries = 0
  /\ params = [limit |-> JUndef]
  /\ attempt = 0
  /\ calls = 0
  /\ waits = <<>>
  /\ lastError = UndefinedError
  /\ result = NoResult
  /\ thrown = UndefinedError
  /\ reply \in UpstreamReplies
  /\ searchOut = NoOutcome
  /\ searched = FALSE
  /\ execOut = NoOutcome
  /\ executed = FALSE
  /\ costModel = <<>>
  /\ costUsage = NoUsage
  /\ costInfo = CostUndefined
  /\ costed = FALSE
  /\ supportedOut = NotCalled
  /\ guessOut = NotCalled
  /\ args = NoArgs
  /\ validated = NotCalled
  /\ toolName = ""
  /\ hpc = "Idle"
  /\ response = NoResponse
  /\ listed = {}
  /\ invocations = NoInvocations
  /\ frames = NoFrames

NextClient == SearchResolved \/ SearchRejected

SpecClient == InitClient /\ [][NextClient]_vars

(***************************************************************************)
(* executeSearch(params) on one upstream reply.                             *)
(***************************************************************************)
\* The limits of SearchParams: absent, 0 and NaN, around the number of
\* upstream results, the default, and the largest one.
ServiceLimits ==
  {JUndef, JNaN}
  \cup {JNum(l) : l \in (0..(MaxUpstream + 1)) \cup {DefaultMaxResults, MaxLimit}}

\* An upstream response with one result more than the default maxResults.
LongResults == [i \in 1..(DefaultMaxResults + 1) |-> Entry("T", "u")]

ServiceEntries ==
  {Entry("T", "u"), Entry("", "u"), Entry("T", ""), EntryWithoutTitle, EntryWithoutUrl}
ServiceCompletions ==
  {Completion(Stringify(JObj(<<"results">>, <<JArr(r)>>)), FALSE, Gpt4O3) :
     r \in SeqsUpTo(ServiceEntries, MaxUpstream) \cup {LongResults}}
  \cup {Completion(c, FALSE, Gpt4O3) : c \in BrokenContents}
ServiceReplies ==
  {Resolves(c) : c \in ServiceCompletions} \cup {Rejects(e) : e \in RawErrors}

ExecuteSearch ==
  /\ ~executed
  /\ execOut' = executeSearch(params, reply)
  /\ executed' = TRUE
  /\ UNCHANGED retryVars
  /\ UNCHANGED clientVars
  /\ UNCHANGED costVars
  /\ UNCHANGED serverVars
  /\ UNCHANGED concVars

InitService ==
  /\ pc = "Idle"
  /\ maxRetries = 0
  /\ params \in {[limit |-> l] : l \in ServiceLimits}
  /\ attempt = 0
  /\ calls = 0
  /\ waits = <<>>
  /\ lastError = UndefinedError
  /\ result = NoResult
  /\ thrown = UndefinedError
  /\ reply \in ServiceReplies
  /\ searchOut = NoOutcome
  /\ searched = FALSE
  /\ execOut = NoOutcome
  /\ executed = FALSE
  /\ costModel = <<>>
  /\ costUsage = NoUsage
  /\ costInfo = CostUndefined
  /\ costed = FALSE
  /\ supportedOut = NotCalled
  /\ guessOut = NotCalled
  /\ args = NoArgs
  /\ validated = NotCalled
  /\ toolName = ""
  /\ hpc = "Idle"
  /\ response = NoResponse
  /\ listed = {}
  /\ invocations = NoInvocations
  /\ frames = NoFrames

NextService == ExecuteSearch

SpecService == InitService /\ [][NextService]_vars

(***************************************************************************)
(* calculateCost(model, usage).                                             *)
(***************************************************************************)
CalculateCost ==
  /\ ~costed
  /\ costInfo' = calculateCost(costModel, costUsage)
  /\ costed' = TRUE
  /\ UNCHANGED <<costModel, costUsage, supportedOut, guessOut>>
  /\ UNCHANGED retryVars
  /\ UNCHANGED clientVars
  /\ UNCHANGED serviceVars
  /\ UNCHANGED serverVars
  /\ UNCHANGED concVars

IsSupportedModel ==
  /\ ~supportedOut.called
  /\ supportedOut' = [called |-> TRUE, value |-> isSupportedModel(costModel)]
  /\ UNCHANGED <<costModel, costUsage, costInfo, costed, guessOut>>
  /\ UNCHANGED retryVars
  /\ UNCHANGED clientVars
  /\ UNCHANGED serviceVars
  /\ UNCHANGED serverVars
  /\ UNCHANGED concVars

GuessModelFromName ==
  /\ ~guessOut.called
  /\ guessOut' = [called |-> TRUE, value |-> guessModelFromName(costModel)]
  /\ UNCHANGED <<costModel, costUsage, costInfo, costed, supportedOut>>
  /\ UNCHANGED retryVars
  /\ UNCHANGED clientVars
  /\ UNCHANGED serviceVars
  /\ UNCHANGED serverVars
  /\ UNCHANGED concVars

InitCost ==
  /\ pc = "Idle"
  /\ maxRetries = 0
  /\ params = [limit |-> JUndef]
  /\ attempt = 0
  /\ calls = 0
  /\ waits = <<>>
  /\ lastError = UndefinedError
  /\ result = NoResult
  /\ thrown = UndefinedError
  /\ reply = NoReply
  /\ searchOut = NoOutcome
  /\ searched = FALSE
  /\ execOut = NoOutcome
  /\ executed = FALSE
  /\ costModel \in ModelNames
  /\ costUsage \in Usages
  /\ costInfo = CostUndefined
  /\ costed = FALSE
  /\ supportedOut = NotCalled
  /\ guessOut = NotCalled
  /\ args = NoArgs
  /\ validated = NotCalled
  /\ toolName = ""
  /\ hpc = "Idle"
  /\ response = NoResponse
  /\ listed = {}
  /\ invocations = NoInvocations
  /\ frames = NoFrames

NextCost == CalculateCost \/ IsSupportedModel \/ GuessModelFromName

SpecCost == InitCost /\ [][NextCost]_vars

(***************************************************************************)
(* validateSearchParams(args).                                              *)
(***************************************************************************)
\* What a call of a function that can throw left behind.
Called(out) == [called |-> TRUE, ok |-> out.ok, value |-> out.value, error |-> out.error]

ValidateSearchParams ==
  /\ ~validated.called
  /\ validated' = Called(validateSearchParams(args))
  /\ UNCHANGED <<args, toolName, hpc, response, listed>>
  /\ UNCHANGED retryVars
  /\ UNCHANGED clientVars
  /\ UNCHANGED serviceVars
  /\ UNCHANGED costVars
  /\ UNCHANGED concVars

InitValidate ==
  /\ pc = "Idle"
  /\ maxRetries = 0
  /\ params = [limit |-> JUndef]
  /\ attempt = 0
  /\ calls = 0
  /\ waits = <<>>
  /\ lastError = UndefinedError
  /\ result = NoResult
  /\ thrown = UndefinedError
  /\ reply = NoReply
  /\ searchOut = NoOutcome
  /\ searched = FALSE
  /\ execOut = NoOutcome
  /\ executed = FALSE
  /\ costModel = <<>>
  /\ costUsage = NoUsage
  /\ costInfo = CostUndefined
  /\ costed = FALSE
  /\ supportedOut = NotCalled
  /\ guessOut = NotCalled
  /\ args \in ValidateArgs
  /\ validated = NotCalled
  /\ toolName = ""
  /\ hpc = "Idle"
  /\ response = NoResponse
  /\ listed = {}
  /\ invocations = NoInvocations
  /\ frames = NoFrames

NextValidate == ValidateSearchParams

SpecValidate == InitValidate /\ [][NextValidate]_vars

(***************************************************************************)
(* The server: the list-tools handler, the call-tool handler and            *)
(* handleSearch.  A response is [made, rejected, content, error]: the       *)
(* handler returned content (a sequence of items), or rejected with error.  *)
(* The text of an item is [words, count, entries]: a message, or the        *)
(* summary of count results and the rendering of each.                      *)
(*   MsgSearchErrorLabel       '検索エラー: '                                *)
(*   MsgUnexpectedSearchError  '検索中に予期しないエラーが発生しました'       *)
(*   MsgNoResults              '検索結果が見つかりませんでした。'             *)
(*   MsgUnknownTool            'Unknown tool: '                             *)
(***************************************************************************)
MsgSearchErrorLabel == "search-error:"
MsgUnexpectedSearchError == "unexpected-error-while-searching"
MsgNoResults == "no-results-found"
MsgUnknownTool == "Unknown-tool:"

\* searchTool.name, and the name the call-tool handler compares with.
searchToolName == "chatgpt_o3_search"
handledToolName == "openai_search"

TextItem(text) == [type |-> "text", text |-> text]
Message(words) == [words |-> words, count |-> 0, entries |-> <<>>]

\* The lines formatSearchResults writes for one result: the date line only
\* for a truthy publishedDate, the score line for every relevanceScore but
\* undefined.
formatResult(r) ==
  [ title |-> r.title, url |-> r.url, snippet |-> r.snippet,
    date |-> IF Truthy(r.publishedDate) THEN r.publishedDate ELSE JUndef,
    score |-> r.relevanceScore ]

formatSearchResults(results) ==
  IF Len(results) = 0 THEN <<TextItem(Message(<<MsgNoResults>>))>>
  ELSE <<TextItem([ words |-> <<>>, count |-> Len(results),
                    entries |-> [i \in 1..Len(results) |-> formatResult(results[i])] ])>>

Responded(content) ==
  [made |-> TRUE, rejected |-> FALSE, content |-> content, error |-> UndefinedError]
RejectedWith(error) ==
  [made |-> TRUE, rejected |-> TRUE, content |-> <<>>, error |-> error]

\* Mutant of errorMessage: the fixed message for every error.
errorMessageFixed(error) == <<MsgUnexpectedSearchError>>

\* error instanceof Error ? error.message : '...'
errorMessage(error) ==
  IF error.name # "undefined" THEN error.message ELSE <<MsgUnexpectedSearchError>>

\* The catch block of handleSearch.
searchFailed(error) ==
  Responded(<<TextItem(Message(<<MsgSearchErrorLabel>> \o errorMessage(error)))>>)

\* Mutant of searchStarts: the search is made whatever the validation said.
searchStartsUnvalidated(v) == TRUE

\* Inside the try block, searchWithRetry is reached only when
\* validateSearchParams returned.
searchStarts(v) == v.ok

\* The list-tools handler.
ListTools ==
  /\ listed = {}
  /\ listed' = {searchToolName}
  /\ UNCHANGED <<args, validated, toolName, hpc, response>>
  /\ UNCHANGED retryVars
  /\ UNCHANGED clientVars
  /\ UNCHANGED serviceVars
  /\ UNCHANGED costVars
  /\ UNCHANGED concVars

\* The call-tool handler, up to the first await that does not settle at
\* once: an unknown tool name is rejected; otherwise handleSearch validates
\* the arguments and either reports the failure or calls searchWithRetry,
\* which runs up to its first upstream call.
CallTool ==
  /\ hpc = "Idle"
  /\ IF toolName # handledToolName
     THEN /\ hpc' = "Rejected"
          /\ response' = RejectedWith(PlainError(<<MsgUnknownTool, toolName>>))
          /\ validated' = validated
          /\ UNCHANGED retryVars
     ELSE LET v == validateSearchParams(args) IN
          /\ validated' = Called(v)
          /\ IF searchStarts(v)
             THEN /\ hpc' = "Searching"
                  /\ response' = response
                  /\ params' = IF v.ok THEN [limit |-> v.value.limit] ELSE params
                  /\ LoopTest(1, lastError)
                  /\ UNCHANGED <<maxRetries, waits, lastError, result>>
             ELSE /\ hpc' = "Returned"
                  /\ response' = searchFailed(v.error)
                  /\ UNCHANGED retryVars
  /\ UNCHANGED <<args, toolName, listed>>
  /\ UNCHANGED clientVars
  /\ UNCHANGED serviceVars
  /\ UNCHANGED costVars
  /\ UNCHANGED concVars

\* handleSearch after its await: searchWithRetry has returned or rejected.
SearchSettles ==
  /\ hpc = "Searching"
  /\ pc \in Terminal
  /\ hpc' = "Returned"
  /\ response' = IF pc = "Succeeded" THEN Responded(formatSearchResults(result.results))
                 ELSE searchFailed(thrown)
  /\ UNCHANGED <<args, validated, toolName, listed>>
  /\ UNCHANGED retryVars
  /\ UNCHANGED clientVars
  /\ UNCHANGED serviceVars
  /\ UNCHANGED costVars
  /\ UNCHANGED concVars

\* The requests explored: the advertised name, the handled name and another
\* one; arguments that are rejected and arguments that are accepted.
ToolNames == {searchToolName, handledToolName, "other_tool"}
ServerArgs ==
  { NoArgs,
    ObjectArgs(JUndef, JUndef, JUndef, JUndef),
    ObjectArgs(QueryString(1, 0), JUndef, JUndef, JUndef),
    ObjectArgs(QueryString(0, 1), Decimal(0), JUndef, JUndef),
    ObjectArgs(QueryString(0, 1), JUndef, JStr("xx"), JUndef),
    ObjectArgs(QueryString(0, 1), JUndef, JUndef, JUndef),
    ObjectArgs(QueryString(1, 1), Decimal(10), JStr("ja"), JStr("recent")),
    ObjectArgs(QueryString(0, 1), Decimal(25), JUndef, JUndef) }

InitServer ==
  /\ pc = "Idle"
  /\ maxRetries \in (0 - 1)..MaxServerRetries
  /\ params = [limit |-> JNum(DefaultMaxResults)]
  /\ attempt = 0
  /\ calls = 0
  /\ waits = <<>>
  /\ lastError = UndefinedError
  /\ result = NoResult
  /\ thrown = UndefinedError
  /\ reply = NoReply
  /\ searchOut = NoOutcome
  /\ searched = FALSE
  /\ execOut = NoOutcome
  /\ executed = FALSE
  /\ costModel = <<>>
  /\ costUsage = NoUsage
  /\ costInfo = CostUndefined
  /\ costed = FALSE
  /\ supportedOut = NotCalled
  /\ guessOut = NotCalled
  /\ args \in ServerArgs
  /\ validated = NotCalled
  /\ toolName \in ToolNames
  /\ hpc = "Idle"
  /\ response = NoResponse
  /\ listed = {}
  /\ invocations = NoInvocations
  /\ frames = NoFrames

NextServer ==
  \/ ListTools
  \/ CallTool
  \/ UpstreamResolves
  \/ UpstreamRejects
  \/ TimerFires
  \/ SearchSettles

SpecServer == InitServer /\ [][NextServer]_vars

(***************************************************************************)
(* Several searchWithRetry calls in flight at once.  The event loop runs    *)
(* one call's code between two of its awaits at a time.  The cells the code *)
(* reads and writes are kept apart from the position of each call:          *)
(*   frames[f]       the cells declared inside searchWithRetry: its         *)
(*                   parameters, the loop counter and lastError             *)
(*   invocations[i]  the call i: its arguments, its position, what it did   *)
(*                   (upstream calls, waits, the events it received) and    *)
(*                   how it settled                                         *)
(***************************************************************************)
InvocationIds == {1, 2}

\* Mutant of frameOf: the cells are module-level, one set for all calls.
frameOfShared(i) == 1

\* params, maxRetries, lastError and attempt are parameters and let
\* declarations of searchWithRetry: every call has cells of its own.
frameOf(i) == i

\* The cells of a call that has not run yet.
NoFrame ==
  [params |-> [limit |-> JUndef], maxRetries |-> 0, attempt |-> 0,
   lastError |-> UndefinedError]

\* A call with the arguments p and max, not made yet.
Invocation(p, max) ==
  [ pc |-> "Idle", args |-> [params |-> p, maxRetries |-> max],
    calls |-> 0, waits |-> <<>>, events |-> <<>>,
    result |-> NoResult, thrown |-> UndefinedError ]

\* The loop test of a call c with the cells f, the counter set to a.
loopTest(c, f, a, err) ==
  IF loopContinues(a, f.maxRetries)
  THEN [ c |-> [c EXCEPT !.pc = "Attempting", !.calls = @ + 1],
         f |-> [f EXCEPT !.attempt = a] ]
  ELSE [ c |-> [c EXCEPT !.pc = "Failed", !.thrown = thrownAfterLoop(err)],
         f |-> [f EXCEPT !.attempt = a] ]

\* The call is made: the parameters are bound and the first loop test runs.
called(c, f) ==
  loopTest(c, [f EXCEPT !.params = c.args.params, !.maxRetries = c.args.maxRetries,
                        !.lastError = UndefinedError],
           1, UndefinedError)

\* The loop body after its await: executeSearch settled with out.
settledWith(c, f, out) ==
  IF out.ok
  THEN [ c |-> [c EXCEPT !.pc = "Succeeded",
                         !.result = [defined |-> TRUE, results |-> out.value.results,
                                     costInfo |-> out.value.costInfo, call |-> c.calls]],
         f |-> f ]
  ELSE LET e == caughtError(f.lastError, [out.error EXCEPT !.call = c.calls]) IN
       IF shouldWait(f.attempt, f.maxRetries)
       THEN [ c |-> [c EXCEPT !.pc = "Retrying",
                              !.waits = Append(@, backoffDelay(f.attempt))],
              f |-> [f EXCEPT !.lastError = e] ]
       ELSE loopTest(c, [f EXCEPT !.lastError = e], f.attempt + 1, e)

\* The awaited executeSearch(params) settles on the upstream reply.
settled(c, f, upstream) == settledWith(c, f, executeSearch(f.params, upstream))

\* The backoff timer of the call fires.
timerFired(c, f) == loopTest(c, f, f.attempt + 1, f.lastError)

\* The event ev, recorded with what the call did on it.
recorded(next, ev) ==
  [c |-> [next.c EXCEPT !.events = Append(@, ev)], f |-> next.f]

\* What the call does on an event.
onEvent(c, f, ev) ==
  recorded(IF ev.kind = "call" THEN called(c, f)
           ELSE IF ev.kind = "reply" THEN settled(c, f, ev.upstream)
           ELSE timerFired(c, f),
           ev)

CallEvent == [kind |-> "call", upstream |-> NoReply]
ReplyEvent(upstream) == [kind |-> "reply", upstream |-> upstream]
TimerEvent == [kind |-> "timer", upstream |-> NoReply]

\* The call i has run up to its next await: its position and cells are kept.
Kept(i, next) ==
  /\ invocations' = [invocations EXCEPT ![i] = next.c]
  /\ frames' = [frames EXCEPT ![frameOf(i)] = next.f]
  /\ UNCHANGED retryVars
  /\ UNCHANGED clientVars
  /\ UNCHANGED serviceVars
  /\ UNCHANGED costVars
  /\ UNCHANGED serverVars

\* The call i runs up to its next await on the event ev.
Run(i, ev) == Kept(i, onEvent(invocations[i], frames[frameOf(i)], ev))

\* The upstream replies the calls receive: one, two and three results, a
\* rate limit and a connection failure.
ConcReplies ==
  { Resolves(Completion(Stringify(JObj(<<"results">>, <<JArr(r)>>)), FALSE, Gpt4O3)) :
      r \in { <<Entry("A", "u")>>,
              <<Entry("B", "u"), Entry("C", "u")>>,
              <<Entry("D", "u"), Entry("E", "u"), Entry("F", "u")>> } }
  \cup { Rejects(RawError([isError |-> TRUE, isSDKAPIError |-> TRUE, name |-> "Error",
                           ctorName |-> "APIError"], JNum(429), <<"x">>, HeaderAbsent)),
         Rejects(RawError([isError |-> TRUE, isSDKAPIError |-> FALSE, name |-> "Error",
                           ctorName |-> "Error"], JUndef, <<"ECONNREFUSED">>, HeaderAbsent)) }

ConcCall(i) ==
  /\ invocations[i].pc = "Idle"
  /\ Run(i, CallEvent)

ConcUpstreamReplies(i) ==
  /\ invocations[i].pc = "Attempting"
  /\ \E upstream \in ConcReplies : Run(i, ReplyEvent(upstream))

ConcTimerFires(i) ==
  /\ invocations[i].pc = "Retrying"
  /\ Run(i, TimerEvent)

InitConc ==
  /\ pc = "Idle"
  /\ maxRetries = 0
  /\ params = [limit |-> JNum(DefaultMaxResults)]
  /\ attempt = 0
  /\ calls = 0
  /\ waits = <<>>
  /\ lastError = UndefinedError
  /\ result = NoResult
  /\ thrown = UndefinedError
  /\ reply = NoReply
  /\ searchOut = NoOutcome
  /\ searched = FALSE
  /\ execOut = NoOutcome
  /\ executed = FALSE
  /\ costModel = <<>>
  /\ costUsage = NoUsage
  /\ costInfo = CostUndefined
  /\ costed = FALSE
  /\ supportedOut = NotCalled
  /\ guessOut = NotCalled
  /\ args = NoArgs
  /\ validated = NotCalled
  /\ toolName = ""
  /\ hpc = "Idle"
  /\ response = NoResponse
  /\ listed = {}
  /\ invocations \in [InvocationIds -> {Invocation(p, max) :
                                         p \in {[limit |-> JNum(1)], [limit |-> JNum(2)]},
                                         max \in 0..MaxConcRetries}]
  /\ frames = [f \in InvocationIds |-> NoFrame]

NextConc ==
  \/ \E i \in InvocationIds : ConcCall(i)
  \/ \E i \in InvocationIds : ConcUpstreamReplies(i)
  \/ \E i \in InvocationIds : ConcTimerFires(i)

SpecConc == InitConc /\ [][NextConc]_vars

(***************************************************************************)
(* Properties.                                                              *)
(***************************************************************************)
Retryable(e) == e.name \in {"RateLimitError", "NetworkError", "TimeoutError"}

\* An error made by the inner catch of client.search: the parse-error
\* prefix, a colon, and the message of the failure.
IsParseError(e) ==
  /\ e.name = "Error"
  /\ Len(e.message) >= 2
  /\ e.message[1] = MsgParsePrefix
  /\ e.message[2] = ":"

LastWait == waits[Len(waits)]

\* C1: when the first attempt of searchWithRetry fails with an AuthError,
\* the upstream is invoked exactly once, no wait is made and the call rejects
\* with that error at once, whatever maxRetries is.
C1_AuthFailFast ==
  (lastError.name = "AuthError" /\ lastError.call = 1)
    => (pc = "Failed" /\ thrown = lastError /\ calls = 1 /\ waits = <<>>)

\* C2: the wait that follows a RateLimitError carrying retryAfter = r is
\* exactly r * 1000 ms.
C2_RateLimitWait ==
  (pc = "Retrying" /\ lastError.name = "RateLimitError" /\ lastError.retryAfter.ty = "num")
    => LastWait = lastError.retryAfter.n * 1000

\* C3: when the first attempt fails with a RateLimitError carrying
\* retryAfter = d > 0 and the second attempt succeeds, the one wait made is
\* at least d and less than 2 * d ms, and the upstream is invoked twice.
C3_RateLimitDelayWindow ==
  ( /\ pc = "Succeeded"
    /\ lastError.name = "RateLimitError"
    /\ lastError.call = 1
    /\ lastError.retryAfter.ty = "num"
    /\ lastError.retryAfter.n > 0 )
    => ( /\ calls = 2
         /\ Len(waits) = 1
         /\ waits[1] >= lastError.retryAfter.n
         /\ waits[1] < 2 * lastError.retryAfter.n )

\* The waits 1000, 2000, 4000, 8000, 10000, 10000, ... of the claim.
ExpectedBackoff(k) ==
  IF k = 1 THEN 1000
  ELSE IF k = 2 THEN 2000
  ELSE IF k = 3 THEN 4000
  ELSE IF k = 4 THEN 8000
  ELSE 10000

C5_LastErrorPropagated ==
  (pc = "Failed" /\ maxRetries >= 1 /\ Retryable(thrown))
    => (calls = maxRetries /\ thrown.call = maxRetries /\ thrown = lastError)

\* C5 witness: three attempts failed and the third one's NetworkError is
\* thrown.
C5_Witness ==
  /\ pc = "Failed"
  /\ maxRetries = 3
  /\ calls = 3
  /\ thrown.name = "NetworkError"
  /\ thrown.call = 3

\* A step from a settled call changes nothing of it.
SettledStays ==
  pc \in Terminal =>
    /\ pc' = pc
    /\ calls' = calls
    /\ waits' = waits
    /\ result' = result
    /\ thrown' = thrown

\* C6: a call that succeeds after k failed attempts returns the value of
\* invocation k + 1, has invoked the upstream k + 1 times and waited k times;
\* once the call has returned or rejected, no attempt and no wait follows.
C6_SuccessIsTerminal ==
  /\ [](pc = "Succeeded" =>
          /\ result.defined
          /\ result.call = calls
          /\ calls = Len(waits) + 1
          /\ (lastError.name # "undefined" => lastError.call = calls - 1)
          /\ calls <= maxRetries)
  /\ [][SettledStays]_vars

\* C6 witness: with maxRetries = 3, two attempts failed with NetworkErrors
\* and the third succeeded.
C6_Witness ==
  /\ pc = "Succeeded"
  /\ maxRetries = 3
  /\ calls = 3
  /\ result.call = 3
  /\ Len(waits) = 2
  /\ lastError.name = "NetworkError"

\* C7: in every finished run, the number of waits is the number of upstream
\* invocations minus one.
C7_WaitsBetweenAttempts ==
  pc \in Terminal => Len(waits) = calls - 1

\* C8: whatever maxRetries is, the upstream is invoked at least once before
\* the call settles.
C8_FirstAttemptUnconditional ==
  pc \in Terminal => calls >= 1

\* C9: when the first attempt fails with a parse error, no further attempt
\* and no wait is made: the call rejects with it after one invocation.
C9_ParseErrorsNotRetried ==
  (IsParseError(lastError) /\ lastError.call = 1)
    => (pc = "Failed" /\ thrown = lastError /\ calls = 1 /\ waits = <<>>)

\* The completions of C10: the first choice's content is empty or absent,
\* holds no brace span, holds a brace span that is no valid JSON, or parses
\* to an object whose results is missing or no array.
NormalizationFails(c) ==
  \/ c.choices = "empty"
  \/ ~c.hasContent
  \/ c.content = <<>>
  \/ ~JsonMatch(c.content).found
  \/ ~JsonParse(JsonMatch(c.content).span).ok
  \/ GetField(JsonParse(JsonMatch(c.content).span).val, "results").ty # "arr"

\* C10: for every such completion client.search rejects with a parse error,
\* never with a classified transport error, and never resolves.
C10_NormalizationFailsAsParseError ==
  (searched /\ reply.resolved /\ NormalizationFails(reply.completion))
    => ( /\ ~searchOut.ok
         /\ IsParseError(searchOut.error)
         /\ searchOut.error.name \notin
              {"AuthError", "RateLimitError", "TimeoutError", "NetworkError"} )

\* C10 witness: the payload {"invalid":"structure"} was rejected with the
\* parse error that reports an invalid result format.
C10_Witness ==
  /\ searched
  /\ reply.resolved
  /\ reply.completion.content = Stringify(JObj(<<"invalid">>, <<JStr("structure")>>))
  /\ ~searchOut.ok
  /\ searchOut.error.message = <<MsgParsePrefix, ":", MsgInvalidFormat>>

\* The thrown values that reach handleOpenAIError: the outer catch of
\* client.search hands it every value that it does not rethrow.
Classified == searched /\ ~reply.resolved
                /\ ~IsParseRethrow(reply.raised.isError, reply.raised.message)

\* The message msg ends with the words of tail.
EndsWith(msg, tail) ==
  /\ Len(msg) >= Len(tail)
  /\ SubSeq(msg, Len(msg) - Len(tail) + 1, Len(msg)) = tail

\* The row of the decision table that applies to the thrown value e, tested
\* on the error out it was classified as.
DecisionTableRow(e, out) ==
  IF e.status.ty = "num" THEN
    CASE e.status.n = 401 -> out.name = "AuthError"
      [] e.status.n = 429 -> out.name = "RateLimitError"
      [] e.status.n >= 500 -> out.name = "NetworkError" /\ out.message = <<MsgServerError>>
      [] OTHER -> out.name = "NetworkError" /\ EndsWith(out.message, e.message)
  ELSE IF e.name = "AbortError" \/ Includes(e.message, "timeout")
  THEN out.name = "TimeoutError" /\ out.timeoutMs = JNum(30000)
  ELSE IF Includes(e.message, "network") \/ Includes(e.message, "ECONNREFUSED")
  THEN out.name = "NetworkError"
  ELSE out.name = "NetworkError"

\* C11: handleOpenAIError classifies every thrown value by the first row
\* that applies: status 401 is AuthError, 429 RateLimitError, a status of 500
\* or more the server-error NetworkError, any other status the NetworkError
\* that quotes the upstream message; without a status, the name AbortError
\* or a message containing 'timeout' is the TimeoutError carrying the
\* configured timeout, then a message containing 'network' or 'ECONNREFUSED'
\* is the connection NetworkError, and anything else the fallback
\* NetworkError.
C11_DecisionTable ==
  Classified => (~searchOut.ok /\ DecisionTableRow(reply.raised, searchOut.error))

\* C12: the RateLimitError made for a status-429 error carries retryAfter =
\* the integer parsed from the retry-after header when it parses, and 60
\* when the header is absent or does not parse; it is never NaN or undefined.
C12_RetryAfterDefault ==
  (Classified /\ searchOut.error.name = "RateLimitError")
    => LET header == reply.raised.retryAfterHeader
           parses == header.isString /\ parseInt(header.chars).ty = "num"
       IN /\ searchOut.error.retryAfter.ty = "num"
          /\ parses => searchOut.error.retryAfter = parseInt(header.chars)
          /\ ~parses => searchOut.error.retryAfter = JNum(60)

\* The SDK APIError that carries the status, headers and message of e.
AsSDKAPIError(e) ==
  [e EXCEPT !.isError = TRUE, !.isSDKAPIError = TRUE, !.name = "Error",
            !.ctorName = "APIError"]

\* C13: a thrown value that carries a numeric status is classified as the
\* SDK APIError with the same status, headers and message is, whatever its
\* class, its name and its constructor name are, and whether it is an Error
\* or a plain object: status 401 is AuthError and status 429 RateLimitError.
C13_DuckTyped ==
  (Classified /\ reply.raised.status.ty = "num")
    => /\ searchOut.error.name = handleOpenAIError(AsSDKAPIError(reply.raised)).name
       /\ reply.raised.status.n = 401 => searchOut.error.name = "AuthError"
       /\ reply.raised.status.n = 429 => searchOut.error.name = "RateLimitError"

\* C14: whatever the upstream call threw, and whatever its message says,
\* client.search rejects with an AuthError, a RateLimitError, a TimeoutError
\* or a NetworkError, never with the thrown value itself.
C14_ClassifierTotal ==
  (searched /\ ~reply.resolved)
    => /\ ~searchOut.ok
       /\ searchOut.error.name \in
            {"AuthError", "RateLimitError", "TimeoutError", "NetworkError"}

\* A completion that client.search normalized successfully.
Normalized == searched /\ reply.resolved /\ searchOut.ok

\* The payload object that was parsed out of the content of the completion c.
ParsedPayload(c) == JsonParse(JsonMatch(c.content).span).val

\* C15: the totalCount of a normalized completion is the totalCount of the
\* parsed payload whenever the payload has one, 0 included, and is the
\* length of results only when the payload has none.
C15_TotalCountRule ==
  Normalized =>
    LET supplied == GetField(ParsedPayload(reply.completion), "totalCount") IN
    IF supplied.ty # "undefined"
    THEN searchOut.value.totalCount = supplied
    ELSE searchOut.value.totalCount = JNum(Len(searchOut.value.results))

\* C16: a normalized completion has a cost exactly when the completion
\* carries usage counters; the cost is then calculateCost of the reported
\* model and that usage, and is absent otherwise.
C16_CostIffUsage ==
  Normalized =>
    /\ searchOut.value.cost.defined <=> reply.completion.hasUsage
    /\ reply.completion.hasUsage =>
         /\ searchOut.value.cost = calculateCost(reply.completion.model,
                                                 reply.completion.usage)
         /\ searchOut.value.cost.usage = reply.completion.usage
    /\ ~reply.completion.hasUsage => searchOut.value.cost = [defined |-> FALSE]

\* C16 witnesses: a completion with usage counters that are all zero got a
\* cost of zero, and the same content without usage got none.
C16_Witness ==
  /\ Normalized
  /\ reply.completion.hasUsage
  /\ reply.completion.usage = Usage(0, 0)
  /\ reply.completion.model = Gpt4oMini
  /\ searchOut.value.cost.defined
  /\ searchOut.value.cost.totalCost = Money(0)

RECURSIVE BalancedEnd(_, _, _)
\* The index of the '}' that brings the depth of open braces from depth to
\* 0, scanning content from index i; 0 when there is none.
BalancedEnd(content, i, depth) ==
  IF i > Len(content) THEN 0
  ELSE IF content[i].t = "{" THEN BalancedEnd(content, i + 1, depth + 1)
  ELSE IF content[i].t = "}"
       THEN IF depth = 1 THEN i ELSE BalancedEnd(content, i + 1, depth - 1)
  ELSE BalancedEnd(content, i + 1, depth)

\* The first balanced {...} span of content: from the first '{' to the '}'
\* that matches it.
FirstBalancedSpan(content) ==
  LET opens == {i \in 1..Len(content) : content[i].t = "{"} IN
  IF opens = {} THEN [found |-> FALSE, span |-> <<>>]
  ELSE LET i == CHOOSE a \in opens : \A b \in opens : a <= b
           j == BalancedEnd(content, i + 1, 1)
       IN IF j = 0 THEN [found |-> FALSE, span |-> <<>>]
          ELSE [found |-> TRUE, span |-> SubSeq(content, i, j)]

\* C17: the outcome of normalizing a content is the outcome of normalizing
\* its first balanced {...} span alone: the text before the first '{' and
\* the text after the matching '}', braces in it included, change nothing.
C17_FirstBalancedSpan ==
  ( /\ searched
    /\ reply.resolved
    /\ reply.completion.choices = "present"
    /\ reply.completion.hasContent
    /\ FirstBalancedSpan(reply.completion.content).found )
    => searchOut =
         clientSearch(Resolves([reply.completion EXCEPT
                                  !.content = FirstBalancedSpan(@).span]))

\* The results of the upstream response that client.search made of the reply.
UpstreamResults == clientSearch(reply).value.results

Min(a, b) == IF a < b THEN a ELSE b

\* C18: with a limit L in 1..50 and an upstream response of n results,
\* executeSearch returns min(L, n) results: the projections of the first
\* min(L, n) upstream entries, in their order.
C18_Truncation ==
  ( /\ executed
    /\ execOut.ok
    /\ params.limit.ty = "num"
    /\ params.limit.n \in 1..50 )
    => /\ Len(execOut.value.results) = Min(params.limit.n, Len(UpstreamResults))
       /\ \A i \in 1..Len(execOut.value.results) :
            execOut.value.results[i] = transformItem(UpstreamResults[i])

\* C18 witness: three upstream results, all different, were cut to the
\* first two.
C18_Witness ==
  /\ executed
  /\ execOut.ok
  /\ params.limit = JNum(2)
  /\ UpstreamResults = <<EntryWithoutUrl, Entry("", "u"), Entry("T", "")>>
  /\ Len(execOut.value.results) = 2
  /\ execOut.value.results[1].url = JUndef
  /\ execOut.value.results[2].url = JStr("u")

\* C19: without truncation (no limit, or a limit of at least the number of
\* upstream results) the projected list has the length and the order of the
\* upstream results: an entry whose title is missing or empty is there with
\* the placeholder title, every other with its own title, and each with its
\* url unchanged, missing and empty urls included.
C19_NoEntryDropped ==
  ( /\ executed
    /\ execOut.ok
    /\ (params.limit.ty = "num" => params.limit.n >= Len(UpstreamResults)) )
    => /\ Len(execOut.value.results) = Len(UpstreamResults)
       /\ \A i \in 1..Len(UpstreamResults) :
            LET entry == UpstreamResults[i]
                title == GetField(entry, "title")
            IN /\ execOut.value.results[i].url = GetField(entry, "url")
               /\ execOut.value.results[i].title =
                    IF title.ty = "undefined" \/ title = JStr("")
                    THEN JStr(NoTitle) ELSE title

\* C19 witness: entries without a title, with an empty title and with an
\* empty url were all projected, in their order.
C19_Witness ==
  /\ executed
  /\ execOut.ok
  /\ params.limit = JUndef
  /\ UpstreamResults = <<EntryWithoutTitle, Entry("", "u"), Entry("T", "")>>
  /\ Len(execOut.value.results) = 3
  /\ execOut.value.results[1].title = JStr(NoTitle)
  /\ execOut.value.results[2].title = JStr(NoTitle)
  /\ execOut.value.results[3].url = JStr("")

\* C20: for every model identifier and every usage of non-negative token
\* counts, calculateCost returns a cost whose model is a key of the pricing
\* table and whose input, output and total cost are numbers that are not
\* negative, never NaN.
C20_CalculateCostTotal ==
  costed =>
    /\ costInfo.defined
    /\ costInfo.model \in DOMAIN MODEL_PRICING
    /\ \A amount \in {costInfo.inputCost, costInfo.outputCost, costInfo.totalCost} :
         ~amount.nan /\ amount.micro >= 0

\* C21: isSupportedModel(s) is true exactly when s is one of the seven keys
\* of MODEL_PRICING, and false for every other string.
C21_ExactMembership ==
  supportedOut.called =>
    (supportedOut.value <=>
       costModel \in {Gpt4o, Gpt4oMini, Gpt4Turbo, Gpt4, Gpt35Turbo, Gpt4O3, Gpt5})

\* The name in lower case contains the pattern.
Contains(name, pattern) == StrIncludes(toLowerCase(name), pattern)

\* The name contains one of the patterns guessModelFromName looks for.
MatchesSomePattern(name) ==
  \E pattern \in {Gpt4oMini, Gpt4o, Gpt4Turbo, Gpt4O3, <<"o", "3">>, Gpt5, Gpt4,
                  <<"g", "p", "t", "-", "3", ".", "5">>, <<"t", "u", "r", "b", "o">>} :
     Contains(name, pattern)

\* What C22 and its amendment share: the mini variant wins over the base
\* variant, a name that matches no pattern resolves to the default, the
\* result is a key of the pricing table and every key resolves to itself.
GuessRules ==
  /\ Contains(costModel, Gpt4oMini) => guessOut.value = Gpt4oMini
  /\ ~MatchesSomePattern(costModel) => guessOut.value = Gpt4o
  /\ guessOut.value \in DOMAIN MODEL_PRICING
  /\ costModel \in DOMAIN MODEL_PRICING => guessOut.value = costModel

\* C22: guessModelFromName resolves, whatever the case of the letters, a
\* name containing 'gpt-4o-mini' to 'gpt-4o-mini', a name containing
\* 'gpt-4-o3' or 'o3' to 'gpt-4-o3', and a name matching no pattern to
\* 'gpt-4o'; the result is a key of the pricing table and every key
\* resolves to itself.
C22_MostSpecificFirst ==
  guessOut.called =>
    /\ GuessRules
    /\ (Contains(costModel, Gpt4O3) \/ Contains(costModel, <<"o", "3">>))
         => guessOut.value = Gpt4O3

\* C22 amended: as C22, but a name containing 'gpt-4-o3' or 'o3' resolves
\* to 'gpt-4-o3' when it contains neither 'gpt-4o' nor 'gpt-4-turbo', the
\* patterns tested before; it never resolves to 'gpt-4'.
C22_Amended ==
  guessOut.called =>
    /\ GuessRules
    /\ (Contains(costModel, Gpt4O3) \/ Contains(costModel, <<"o", "3">>))
         => /\ guessOut.value # Gpt4
            /\ (~Contains(costModel, Gpt4o) /\ ~Contains(costModel, Gpt4Turbo))
                 => guessOut.value = Gpt4O3

\* C22 witness: 'GPT-4O-MINI' was resolved to 'gpt-4o-mini'.
C22_Witness ==
  /\ guessOut.called
  /\ costModel = <<"G", "P", "T", "-", "4", "O", "-", "M", "I", "N", "I">>
  /\ guessOut.value = Gpt4oMini

C29_CountWithinMaxResults ==
  (executed /\ execOut.ok)
    => Len(execOut.value.results) <= buildSearchQuery(params).maxResults.n

\* C27: every value validateSearchParams returns has a query that is
\* trimmed, not empty and at most 500 characters long, a limit that is an
\* integer from 1 to 50 (10 when the arguments have none), a language of
\* the enumeration ('auto' when the arguments have none) and a timeframe
\* that is absent or of its enumeration.
C27_SearchParamsInvariant ==
  (validated.called /\ validated.ok) =>
    /\ validated.value.query.pad = 0
    /\ validated.value.query.core \in 1..500
    /\ validated.value.limit.ty = "num"
    /\ validated.value.limit.n \in 1..50
    /\ args.limit.ty = "undefined" => validated.value.limit = JNum(10)
    /\ validated.value.language.ty = "str"
    /\ validated.value.language.s \in validLanguages
    /\ args.language.ty = "undefined" => validated.value.language = JStr("auto")
    /\ \/ validated.value.timeframe.ty = "undefined"
       \/ /\ validated.value.timeframe.ty = "str"
          /\ validated.value.timeframe.s \in validTimeframes

\* C23: when validateSearchParams rejects the arguments of a request,
\* no upstream call and no retry wait is ever made for it: the failure is
\* reported with the retry loop never entered.
C23_ValidationPrecedesNetwork ==
  (validated.called /\ ~validated.ok)
    => /\ calls = 0
       /\ waits = <<>>
       /\ pc = "Idle"
       /\ hpc = "Returned"

\* C23 witness: a request without a query was answered with no upstream call.
C23_Witness ==
  /\ hpc = "Returned"
  /\ args = ObjectArgs(JUndef, JUndef, JUndef, JUndef)
  /\ validated.called
  /\ ~validated.ok
  /\ calls = 0

\* The response of C28 for an error with the message msg: one text item,
\* the label followed by msg.
ErrorReport(msg) ==
  [ made |-> TRUE, rejected |-> FALSE,
    content |-> <<[type |-> "text",
                   text |-> [words |-> <<MsgSearchErrorLabel>> \o msg,
                             count |-> 0, entries |-> <<>>]]>>,
    error |-> UndefinedError ]

\* C28: handleSearch never rejects; when validation fails, and when
\* searchWithRetry rejects, it returns one text item: the label
\* '検索エラー: ' followed by the message of the error that was raised.
C28_FailuresReportedAsText ==
  /\ toolName = handledToolName => hpc # "Rejected"
  /\ (hpc = "Returned" /\ ~validated.ok) => response = ErrorReport(validated.error.message)
  /\ (hpc = "Returned" /\ validated.ok /\ pc = "Failed")
       => response = ErrorReport(thrown.message)

\* C28 witness: both attempts failed, the second with a RateLimitError,
\* and its message was reported.
C28_Witness ==
  /\ hpc = "Returned"
  /\ pc = "Failed"
  /\ calls = 2
  /\ thrown.name = "RateLimitError"
  /\ response = ErrorReport(<<MsgRateLimit>>)

\* C30: every tool name the list-tools handler returns is accepted by the
\* call-tool handler, and a request is rejected as an unknown tool only
\* when its name was not returned by the list-tools handler.
C30_AdvertisedToolsCallable ==
  (listed # {} /\ hpc # "Idle")
    => /\ toolName \in listed => hpc # "Rejected"
       /\ hpc = "Rejected"
            => /\ toolName \notin listed
               /\ response.error.message = <<MsgUnknownTool, toolName>>

\* C26: under the fair scheduling of upstream replies and timers, every
\* searchWithRetry call that was made eventually settles; a settled call
\* holds a result or an Error value, never both and never neither, and it
\* made at most maxRetries upstream calls (none when maxRetries is below 1).
C26_EveryCallSettles ==
  /\ (pc # "Idle") ~> (pc \in Terminal)
  /\ [](pc = "Succeeded" => (result.defined /\ thrown.name = "undefined"))
  /\ [](pc = "Failed" => (thrown.name # "undefined" /\ ~result.defined))
  /\ [](calls <= (IF maxRetries >= 0 THEN maxRetries ELSE 0))

\* C26 witness: with maxRetries = 3 the call settled after three upstream
\* calls and two waits, rejecting with the third call's error.
C26_Witness ==
  /\ pc = "Failed"
  /\ maxRetries = 3
  /\ calls = 3
  /\ Len(waits) = 2
  /\ thrown.name = "TimeoutError"
  /\ ~result.defined

RECURSIVE RunAlone(_, _, _)
\* The call c run by itself, with cells of its own, on a sequence of events.
RunAlone(c, f, events) ==
  IF events = <<>> THEN c
  ELSE LET next == onEvent(c, f, Head(events)) IN
       RunAlone(next.c, next.f, Tail(events))

\* The upstream replies a call received, in order.
RepliesOf(events) ==
  SelectSeq(events, LAMBDA ev : ev.kind = "reply")

\* The projection of an upstream reply for the arguments of a call.
ProjectionOf(c, upstream) ==
  executeSearch(c.args.params, upstream).value.results

\* C25: in every interleaving of the calls in flight, each call is where it
\* would be had it run alone on the events it received (the same position,
\* upstream calls, waits, result and error), and a call that returned holds
\* the projection of the last upstream reply it received itself.
C25_IndependentInvocations ==
  \A i \in InvocationIds :
    LET c == invocations[i] IN
    /\ c = RunAlone(Invocation(c.args.params, c.args.maxRetries), NoFrame, c.events)
    /\ c.pc = "Succeeded"
         => LET replies == RepliesOf(c.events) IN
            /\ c.calls = Len(replies)
            /\ c.result.results = ProjectionOf(c, replies[Len(replies)].upstream)

\* C25 witness: call 2 has returned, with the one result its limit allows,
\* while call 1, whose first attempt failed, waits for its second reply.
C25_Witness ==
  /\ invocations[1].pc = "Attempting"
  /\ invocations[1].calls = 2
  /\ invocations[1].args.params.limit = JNum(2)
  /\ invocations[2].pc = "Succeeded"
  /\ invocations[2].calls = 1
  /\ invocations[2].args.params.limit = JNum(1)
  /\ Len(invocations[2].result.results) = 1
  /\ Len(invocations[2].events) = 2
====
